---- MODULE Spec2Model ----
(***************************************************************************)
(* A model of @heyatlas/cache: the Cache connection manager (src/cache.ts), *)
(* the remote-store client handles it opens, and the callers of its API.   *)
(*                                                                         *)
(* A client handle is the ioredis object built by `new Redis(...)`.  Its   *)
(* lifecycle events (ready, error, close, reconnecting, end) are inputs of  *)
(* the environment; what the model translates is the listeners cache.ts    *)
(* registers for them.  One connect() attempt opens one handle and creates *)
(* one promise, so an attempt, its handle and its promise share one id.    *)
(*                                                                         *)
(* Callers are anonymous: a pending connect() call is counted on the       *)
(* promise it awaits, a pending command sits on the wire of the handle it   *)
(* was written on, and the call that has just settled is in `last`.  When  *)
(* a promise settles, the calls awaiting it resume in the same turn of     *)
(* the event loop, before any further event.                               *)
(***************************************************************************)
EXTENDS Integers, Sequences, FiniteSets, TLC

\* ------------------------------------------------------------------ bounds
MaxInst == 2        \* Cache objects ever constructed
MaxAttempts == 2    \* connection attempts (= handles opened) in one run
NCallers == 2       \* calls pending at the same time
MaxSteady == 2      \* steady-state listener sets counted per handle
MaxRetryAttempt == 8 \* attempt numbers given to the retry policy on its own
MaxAge == 3         \* seconds counted on an entry of the store

Insts == 1..MaxInst
Attempts == 1..MaxAttempts

\* ------------------------------------------------------- program constants
RetryStop == 5        \* retryStrategy: attempt >= 5 ? null
RetryCap == 3000      \* retryStrategy: Math.min(..., 3000)
JitterRange == 5000   \* retryStrategy: Math.floor(Math.random() * 5000)

ErrNotInitialized == "Cache is not initialized. Please provide configuration for the first call."
ErrNotConnected == "Redis cache is not connected"
ErrInvalidValue == "Value is null or undefined"
ErrTimeout == "Connection timeout"
\* failures raised by the client handle and by the store
ErrTransport == "transport error"
ErrNotWritable == "Stream isn't writeable and enableOfflineQueue options is false"
ErrClosed == "Connection is closed."
ErrExpire == "ERR invalid expire time in 'setex' command"
ErrWrongType == "WRONGTYPE Operation against a key holding the wrong kind of value"

\* createCacheStore: `defaultTTL = 60 * 60 * 24`
DefaultTTL == 86400
\* saveItem: `Failed to save item: ${(error as Error).message}`
SaveFailed(err) == "Failed to save item: " \o err
\* a store that lets the cause through as it is
ThrownBare(op, err) == err

\* what a failure inside operation op reaches its caller as
Thrown(op, err) == IF op = "saveItem" THEN SaveFailed(err) ELSE err

\* ------------------------------------------------------------ input sets
Configs == {"cfgA", "cfgB"}
NoConfig == "undefined"

\* JavaScript values: t is the type tag, s the payload of a string, n that of
\* a number, b that of a boolean, and f the fields of an object, in insertion
\* order, each a name and a string
Undefined == [t |-> "undefined", s |-> "", n |-> 0, b |-> FALSE, f |-> <<>>]
Null == [Undefined EXCEPT !.t = "null"]
Str(s) == [Undefined EXCEPT !.t = "str", !.s = s]
Num(n) == [Undefined EXCEPT !.t = "num", !.n = n]
Bool(b) == [Undefined EXCEPT !.t = "bool", !.b = b]
Obj(f) == [Undefined EXCEPT !.t = "obj", !.f = f]
Field(name, s) == [name |-> name, s |-> s]

\* keys and patterns are sequences of characters
TestPrefix == <<"t", "e", "s", "t", ":">>
Star == <<"*">>
NoTtl == -1         \* the ttl argument left out (undefined)

VARIABLES
    instance,   \* Cache.instance: 0 (null) or the id of a Cache object
    cache,      \* Cache object id -> its fields
    client,     \* handle id -> the state of that remote-store client handle
    promise,    \* attempt id -> the promise created by that connect() attempt
    waiters,    \* attempt id -> the number of connect() calls awaiting its promise
    wire,       \* handle id -> the calls whose command is written on it, unanswered
    last,       \* the call that settled in the latest step, Idle if none did
    down,       \* Cache object id -> shutdown() completed, no connect() resolved since
    store,      \* the remote store: physical key -> entry
    testMode    \* process.env.NODE_ENV === "test"

lifeVars == <<instance, cache, client, promise>>
vars == <<instance, cache, client, promise, waiters, wire, last, down, store, testMode>>

\* ------------------------------------------------------------- records
\* the options a cache store was created with
CacheStore(ns, ttl) == [namespace |-> ns, defaultTTL |-> ttl]
NoStore == CacheStore(<<>>, NoTtl)
NoCache == [made |-> FALSE, config |-> NoConfig, redis |-> 0, isReady |-> FALSE,
            connectPromise |-> 0]
NoClient == [owner |-> 0, status |-> "none", steady |-> 0, timer |-> FALSE,
             manual |-> FALSE]
NoCmd == [name |-> "none", key |-> <<>>, text |-> "", ttl |-> 0, batch |-> <<>>]

\* a call: op and inst name the method and the Cache object; st is "wait"
\* while it is pending and "ok" or "err" once settled; err is the failure's
\* message; ret, keys and results hold what it returned; pr is the promise
\* connect() calls awaited and n how many of them; cmd is the command the
\* call wrote; cfg is the configuration given to the accessor, and key, val,
\* ttl, items and ops are the arguments given to a data operation (its key or
\* pattern, its value, its ttl, its items, the commands its builder enqueues)
\* and the cache store it was called on; made tells that the accessor constructed the
\* object.  gate, down and busy record the state the call was made in: whether
\* the connection gate was open, whether the object was shut down, and whether
\* a connection attempt was in flight.
Idle == [op |-> "none", inst |-> 0, st |-> "idle", err |-> "", ret |-> Undefined,
         keys |-> {}, results |-> <<>>, pr |-> 0, n |-> 0, cmd |-> NoCmd,
         cfg |-> NoConfig, key |-> <<>>, val |-> Undefined, ttl |-> NoTtl,
         items |-> <<>>, ops |-> <<>>, cs |-> NoStore, made |-> FALSE,
         gate |-> FALSE, down |-> FALSE, busy |-> FALSE]

\* the arguments of a data operation
NoArgs == [key |-> <<>>, val |-> Undefined, ttl |-> NoTtl, items |-> <<>>, ops |-> <<>>,
           cs |-> NoStore]
KeyArg(k) == [NoArgs EXCEPT !.key = k]
WithArgs(p, a) ==
    [p EXCEPT !.key = a.key, !.val = a.val, !.ttl = a.ttl, !.items = a.items,
              !.ops = a.ops, !.cs = a.cs]

\* a call on object i that settled at once
Settled(op, i, st, err) ==
    [Idle EXCEPT !.op = op, !.inst = i, !.st = st, !.err = err,
                 !.gate = cache[i].isReady /\ cache[i].redis # 0, !.down = down[i],
                 !.busy = cache[i].connectPromise # 0]

\* a call on object i left pending on a command
Pending(op, i, cmd) ==
    [Idle EXCEPT !.op = op, !.inst = i, !.st = "wait", !.cmd = cmd,
                 !.gate = cache[i].isReady /\ cache[i].redis # 0, !.down = down[i],
                 !.busy = cache[i].connectPromise # 0]

RECURSIVE SumTo(_, _)
SumTo(f, n) == IF n = 0 THEN 0 ELSE f[n] + SumTo(f, n - 1)

\* the number of calls pending
NPending == SumTo(waiters, MaxAttempts) + SumTo([h \in Attempts |-> Len(wire[h])], MaxAttempts)
CanCall == NPending < NCallers

\* ------------------------------------------------------------ Cache fields
\* isConnected(): this.isReady && this.redis !== null
isConnected(i) == cache[i].isReady /\ cache[i].redis # 0

\* a getConnection() that does not look at the readiness flag
getConnectionUnguarded(i) == cache[i].redis

\* getConnection(): the handle, or 0 when it throws NotConnected
getConnection(i) == IF cache[i].isReady /\ cache[i].redis # 0 THEN cache[i].redis ELSE 0

\* a getKey() that never prefixes
getKeyPlain(k) == k

\* getKey(): the physical key of a logical key
getKey(k) == IF testMode THEN TestPrefix \o k ELSE k

InitLife ==
    /\ instance = 0
    /\ cache = [i \in Insts |-> NoCache]
    /\ client = [h \in Attempts |-> NoClient]
    /\ promise = [a \in Attempts |-> "none"]
    /\ waiters = [a \in Attempts |-> 0]
    /\ wire = [h \in Attempts |-> <<>>]
    /\ last = Idle
    /\ down = [i \in Insts |-> FALSE]
    /\ store = <<>>

Init ==
    /\ InitLife
    /\ testMode = FALSE

\* -------------------------------------------------------------- getInstance
FreeInsts == {i \in Insts : ~cache[i].made}
NewInst == CHOOSE i \in FreeInsts : \A j \in FreeInsts : i <= j

\* an accessor that fails whenever no instance exists
MustThrowUninitialized(cfg) == instance = 0

\* getInstance: `if (!Cache.instance && !config) throw`
MustThrow(cfg) == instance = 0 /\ cfg = NoConfig

\* an accessor that constructs an object whenever it is given a configuration
MustCreateAlways(cfg) == cfg # NoConfig

\* getInstance: `if (!Cache.instance && config) Cache.instance = new Cache(config)`
MustCreate(cfg) == instance = 0 /\ cfg # NoConfig

\* Cache.getInstance(config?) / cacheInstance(config?)
getInstance(cfg) ==
    /\ IF MustThrow(cfg)
       THEN /\ last' = [Idle EXCEPT !.op = "getInstance", !.st = "err", !.cfg = cfg,
                                     !.err = ErrNotInitialized]
            /\ UNCHANGED <<instance, cache>>
       ELSE IF MustCreate(cfg)
       THEN /\ FreeInsts # {}
            /\ cache' = [cache EXCEPT ![NewInst] = [NoCache EXCEPT !.made = TRUE,
                                                                  !.config = cfg]]
            /\ instance' = NewInst
            /\ last' = [Idle EXCEPT !.op = "getInstance", !.st = "ok", !.cfg = cfg,
                                     !.inst = NewInst, !.made = TRUE]
       ELSE /\ last' = [Idle EXCEPT !.op = "getInstance", !.st = "ok", !.cfg = cfg,
                                     !.inst = instance]
            /\ UNCHANGED <<instance, cache>>
    /\ UNCHANGED <<client, promise, waiters, wire, down, store, testMode>>

\* ------------------------------------------------------------------ connect
Min(a, b) == IF a <= b THEN a ELSE b

FreeAttempts == {a \in Attempts : promise[a] = "none"}
NewAttempt == CHOOSE a \in FreeAttempts : \A b \in FreeAttempts : a <= b

\* a connect() without its ready check
AlreadyReadyNever(i) == FALSE

\* connect(): `if (this.isReady && this.redis) return;`
AlreadyReady(i) == cache[i].isReady /\ cache[i].redis # 0

\* a connect() that does not look at the marker
InFlightForgotten(i) == 0

\* connect(): `if (this.connectPromise) return this.connectPromise;`
\* the attempt in flight that a new caller joins, or 0
InFlight(i) == cache[i].connectPromise

\* the handle `new Redis(this.getRedisConfig())` builds, with the attempt's
\* timer armed and the attempt's ready/error listeners registered
OpenClient(i) ==
    [owner |-> i, status |-> "connecting", steady |-> 0, timer |-> TRUE,
     manual |-> FALSE]

\* Cache.connect(), up to its `await this.connectPromise`
connect(i) ==
    /\ cache[i].made
    /\ IF AlreadyReady(i)
       THEN /\ last' = [Settled("connect", i, "ok", "") EXCEPT !.n = 1]
            /\ down' = [down EXCEPT ![i] = FALSE]
            /\ UNCHANGED <<lifeVars, waiters>>
       ELSE IF InFlight(i) # 0
       THEN /\ CanCall
            /\ waiters' = [waiters EXCEPT ![InFlight(i)] = @ + 1]
            /\ last' = Idle
            /\ UNCHANGED <<lifeVars, down>>
       ELSE /\ CanCall
            /\ FreeAttempts # {}
            /\ cache' = [cache EXCEPT ![i].redis = NewAttempt,
                                      ![i].connectPromise = NewAttempt]
            /\ client' = [client EXCEPT ![NewAttempt] = OpenClient(i)]
            /\ promise' = [promise EXCEPT ![NewAttempt] = "pending"]
            /\ waiters' = [waiters EXCEPT ![NewAttempt] = @ + 1]
            /\ last' = Idle
            /\ UNCHANGED <<instance, down>>
    /\ UNCHANGED <<wire, store, testMode>>

\* resolve() / reject(): the promise of attempt a settles, unless it has
\* settled before
SettledPromises(a, st) ==
    IF promise[a] = "pending" THEN [promise EXCEPT ![a] = st] ELSE promise

\* connect(): `finally { this.connectPromise = null; }`, run by the call that
\* started the attempt when its promise settles
ClearMarker(a, o) ==
    IF promise[a] = "pending" THEN 0 ELSE cache[o].connectPromise

\* the connect() calls awaiting the promise of attempt a resume with its outcome
Resumed(a, st, err) ==
    IF promise[a] = "pending"
    THEN [Idle EXCEPT !.op = "connect", !.inst = client[a].owner, !.st = st,
                      !.err = err, !.pr = a, !.n = waiters[a],
                      !.down = down[client[a].owner]]
    ELSE Idle

NoWaiters(a) == IF promise[a] = "pending" THEN [waiters EXCEPT ![a] = 0] ELSE waiters

\* ------------------------------------------------------------ handle events
\* a setupListeners() that registers nothing
setupListenersNone(cl, r) == cl

\* setupListeners(redis): one more set of steady-state listeners on redis
setupListeners(cl, r) ==
    IF r = 0 THEN cl ELSE [cl EXCEPT ![r].steady = Min(@ + 1, MaxSteady)]

\* an attempt whose ready listener is registered with once()
ReadyListenerOnce(h) == client[h].steady = 0

\* connect(): `this.redis.on("ready", ...)`: the attempt's ready listener is
\* registered with on() and never removed, so it runs at every ready event
ReadyListener(h) == TRUE

\* "ready" on handle h: the listener connect() registered
\*   clearTimeout; this.isReady = true; this.setupListeners(this.redis); resolve()
\* (with this.redis null, setupListeners throws before resolve() is reached)
onReady(h) ==
    /\ client[h].status = "connecting"
    /\ LET o == client[h].owner
           r == cache[o].redis
       IN IF ReadyListener(h)
          THEN /\ client' = setupListeners(
                       [client EXCEPT ![h].status = "ready", ![h].timer = FALSE], r)
               /\ cache' = [cache EXCEPT ![o].isReady = TRUE,
                                         ![o].connectPromise =
                                             IF r # 0 THEN ClearMarker(h, o) ELSE @]
               /\ promise' = IF r # 0 THEN SettledPromises(h, "ok") ELSE promise
               /\ waiters' = IF r # 0 THEN NoWaiters(h) ELSE waiters
               /\ last' = IF r # 0 THEN Resumed(h, "ok", "") ELSE Idle
               /\ down' = IF r # 0 /\ promise[h] = "pending"
                          THEN [down EXCEPT ![o] = FALSE] ELSE down
          ELSE /\ client' = [client EXCEPT ![h].status = "ready"]
               /\ last' = Idle
               /\ UNCHANGED <<cache, promise, waiters, down>>
    /\ UNCHANGED <<instance, wire, store, testMode>>

\* "error" on handle h: the listener connect() registered
\*   clearTimeout; this.isReady = false; reject(error)
\* (the steady-state error listener only logs); the socket then closes
onError(h) ==
    /\ client[h].status \in {"connecting", "ready"}
    /\ LET o == client[h].owner
       IN /\ client' = [client EXCEPT ![h].status = "closing", ![h].timer = FALSE]
          /\ cache' = [cache EXCEPT ![o].isReady = FALSE,
                                    ![o].connectPromise = ClearMarker(h, o)]
          /\ promise' = SettledPromises(h, "err")
    /\ waiters' = NoWaiters(h)
    /\ last' = Resumed(h, "err", ErrTransport)
    /\ UNCHANGED <<instance, wire, down, store, testMode>>

\* "close" on handle h: each steady-state close listener clears this.isReady
onClose(h) ==
    /\ client[h].status \in {"ready", "closing"}
    /\ client' = [client EXCEPT ![h].status = "closed"]
    /\ cache' = [cache EXCEPT ![client[h].owner].isReady =
                     IF client[h].steady > 0 THEN FALSE ELSE @]
    /\ last' = Idle
    /\ UNCHANGED <<instance, promise, waiters, wire, down, store, testMode>>

RECURSIVE Pow2(_)
Pow2(n) == IF n = 0 THEN 1 ELSE 2 * Pow2(n - 1)

RetryNull == -1
\* a policy without the cap
retryStrategyUncapped(attempt, jitter) ==
    IF attempt >= RetryStop THEN RetryNull ELSE Pow2(attempt) + jitter

\* retryStrategy(attempt), with jitter = Math.floor(Math.random() * 5000)
retryStrategy(attempt, jitter) ==
    LET nextSleepTime == Min(Pow2(attempt) + jitter, RetryCap)
    IN IF attempt >= RetryStop THEN RetryNull ELSE nextSleepTime

Jitters == {0, JitterRange - 1}
\* the attempt numbers the client passes to retryStrategy
RetryAttempts == 1..(RetryStop + 1)

\* "reconnecting" on handle h: after a close the client calls
\* retryStrategy(attempt) and reconnects when it returns a delay
onReconnecting(h) ==
    /\ client[h].status = "closed"
    /\ ~client[h].manual
    /\ \E n \in RetryAttempts, j \in Jitters : retryStrategy(n, j) # RetryNull
    /\ client' = [client EXCEPT ![h].status = "connecting"]
    /\ last' = Idle
    /\ UNCHANGED <<instance, cache, promise, waiters, wire, down, store, testMode>>

\* "end" on handle h: closed by hand, or abandoned because retryStrategy
\* returned null (the end listener only logs).  An ended handle emits no
\* further event, so its listeners are dead and no longer counted.
onEnd(h) ==
    /\ client[h].status = "closed"
    /\ \/ client[h].manual
       \/ \E n \in RetryAttempts, j \in Jitters : retryStrategy(n, j) = RetryNull
    /\ client' = [client EXCEPT ![h].status = "end", ![h].steady = 0,
                                ![h].manual = FALSE]
    /\ last' = Idle
    /\ UNCHANGED <<instance, cache, promise, waiters, wire, down, store, testMode>>

\* redis.disconnect(): close by hand, no reconnection
disconnect(cl, r) ==
    IF r = 0 THEN cl
    ELSE [cl EXCEPT ![r].manual = TRUE,
                    ![r].status = IF @ \in {"connecting", "ready"} THEN "closing" ELSE @]

\* the attempt's 5 s timer fires:
\*   reject(new Error("Connection timeout")); this.redis?.disconnect()
onTimeout(a) ==
    /\ client[a].timer
    /\ LET o == client[a].owner
       IN /\ promise' = SettledPromises(a, "err")
          /\ cache' = [cache EXCEPT ![o].connectPromise = ClearMarker(a, o)]
          /\ client' = disconnect([client EXCEPT ![a].timer = FALSE], cache[o].redis)
    /\ waiters' = NoWaiters(a)
    /\ last' = Resumed(a, "err", ErrTimeout)
    /\ UNCHANGED <<instance, wire, down, store, testMode>>

\* ----------------------------------------------------------------- shutdown
\* a command can be written on h: the handle is ready (enableOfflineQueue is
\* false, so nothing is queued on a handle that is not)
Writable(h) == client[h].status = "ready"

\* the failure of writing a command on a handle that is not writable
WriteError(h) == IF client[h].status = "end" THEN ErrClosed ELSE ErrNotWritable

Quit == [NoCmd EXCEPT !.name = "quit"]

\* a shutdown() that skips the handle
HasHandleNever(i) == FALSE

\* shutdown(): `if (this.redis)`
HasHandle(i) == cache[i].redis # 0

\* a shutdown() that leaves the readiness flag as it is
GateLeftOpen(c, i) == c

\* shutdown(): `this.isReady = false`, before the await
GateClosed(c, i) == [c EXCEPT ![i].isReady = FALSE]

\* Cache.shutdown(), up to its `await this.redis.quit()`
shutdown(i) ==
    /\ cache[i].made
    /\ IF HasHandle(i)
       THEN LET h == cache[i].redis
            IN /\ cache' = GateClosed(cache, i)
               /\ IF Writable(h)
                  THEN /\ CanCall
                       /\ wire' = [wire EXCEPT ![h] = Append(@, Pending("shutdown", i, Quit))]
                       /\ client' = [client EXCEPT ![h].manual = TRUE]
                       /\ last' = Idle
                  ELSE /\ last' = [Settled("shutdown", i, "err", WriteError(h))
                                       EXCEPT !.cmd = Quit]
                       /\ UNCHANGED <<wire, client>>
               /\ UNCHANGED <<instance, down>>
       ELSE /\ instance' = 0
            /\ down' = [down EXCEPT ![i] = TRUE]
            /\ last' = Settled("shutdown", i, "ok", "")
            /\ UNCHANGED <<cache, client, wire>>
    /\ UNCHANGED <<promise, waiters, store, testMode>>

\* the store answers quit and closes the connection; shutdown() resumes:
\*   this.redis = null; Cache.instance = null
quitReply(h) ==
    /\ client[h].status = "ready"
    /\ wire[h] # <<>>
    /\ Head(wire[h]).cmd.name = "quit"
    /\ wire' = [wire EXCEPT ![h] = Tail(@)]
    /\ client' = [client EXCEPT ![h].status = "closing"]
    /\ cache' = [cache EXCEPT ![Head(wire[h]).inst].redis = 0]
    /\ instance' = 0
    /\ down' = [down EXCEPT ![Head(wire[h]).inst] = TRUE]
    /\ last' = [Head(wire[h]) EXCEPT !.st = "ok"]
    /\ UNCHANGED <<promise, waiters, store, testMode>>

\* ------------------------------------------------------------- the store
\* what the store answers to one command
Reply(err, text, nil, keys) == [err |-> err, text |-> text, nil |-> nil, keys |-> keys]
Ok == Reply("", "OK", FALSE, {})

\* glob matching of KEYS: * matches any run of characters, any other
\* character matches itself
RECURSIVE GlobMatch(_, _)
GlobMatch(p, k) ==
    IF p = <<>> THEN k = <<>>
    ELSE IF Head(p) = "*"
         THEN GlobMatch(Tail(p), k) \/ (k # <<>> /\ GlobMatch(p, Tail(k)))
         ELSE k # <<>> /\ Head(k) = Head(p) /\ GlobMatch(Tail(p), Tail(k))

\* an entry of the store: its text, the expiry it was written with in seconds
\* (0: none) and the seconds elapsed since (counted up to MaxAge); by and
\* given are the value and the ttl given to the set() call that wrote it,
\* Undefined and NoTtl when another command did, and cs is the cache store
\* whose saveItem() wrote it
Entry(text, ttl) ==
    [text |-> text, ttl |-> ttl, age |-> 0, by |-> Undefined, given |-> NoTtl,
     cs |-> NoStore]

\* the key holds an entry that has not expired
Live(st, key) == key \in DOMAIN st /\ (st[key].ttl = 0 \/ st[key].age < st[key].ttl)

Put(st, key, text, ttl) ==
    [k \in DOMAIN st \cup {key} |-> IF k = key THEN Entry(text, ttl) ELSE st[k]]
\* a delete that empties the store
RemoveAll(st, key) == [k \in {} |-> st[k]]

Remove(st, key) == [k \in DOMAIN st \ {key} |-> st[k]]

\* the store after a command, and the answer to it
StoreAfter(cmd, st) ==
    CASE cmd.name = "set" -> Put(st, cmd.key, cmd.text, 0)
      [] cmd.name = "setex" /\ cmd.ttl > 0 -> Put(st, cmd.key, cmd.text, cmd.ttl)
      [] cmd.name = "del" -> Remove(st, cmd.key)
      [] OTHER -> st

Answer(cmd, st) ==
    CASE cmd.name = "get" ->
            IF Live(st, cmd.key) THEN Reply("", st[cmd.key].text, FALSE, {})
            ELSE Reply("", "", TRUE, {})
      [] cmd.name = "setex" /\ cmd.ttl <= 0 -> Reply(ErrExpire, "", TRUE, {})
      [] cmd.name = "hget" ->
            IF Live(st, cmd.key) THEN Reply(ErrWrongType, "", TRUE, {})
            ELSE Reply("", "", TRUE, {})
      [] cmd.name = "keys" -> Reply("", "", FALSE, {k \in DOMAIN st : Live(st, k) /\ GlobMatch(cmd.key, k)})
      [] OTHER -> Ok

\* a batch is applied command by command, in submission order
RECURSIVE StoreAfterBatch(_, _)
StoreAfterBatch(batch, st) ==
    IF batch = <<>> THEN st ELSE StoreAfterBatch(Tail(batch), StoreAfter(Head(batch), st))

RECURSIVE AnswersBatch(_, _)
AnswersBatch(batch, st) ==
    IF batch = <<>> THEN <<>>
    ELSE <<Answer(Head(batch), st)>> \o AnswersBatch(Tail(batch), StoreAfter(Head(batch), st))

\* ------------------------------------------------------------------- JSON
Quote(s) == "\"" \o s \o "\""

\* the members of an object, written out: "name":"string", comma-separated
RECURSIVE Members(_)
Members(f) ==
    IF f = <<>> THEN ""
    ELSE Quote(Head(f).name) \o ":" \o Quote(Head(f).s)
         \o (IF Tail(f) = <<>> THEN "" ELSE "," \o Members(Tail(f)))

\* JSON.stringify(value), for payloads that need no escaping
JSONstringify(v) ==
    CASE v.t = "str" -> Quote(v.s)
      [] v.t = "num" -> ToString(v.n)
      [] v.t = "bool" -> IF v.b THEN "true" ELSE "false"
      [] v.t = "obj" -> "{" \o Members(v.f) \o "}"
      [] v.t = "null" -> "null"
      [] OTHER -> ""

\* the values JSON texts decode to
StrPayloads == {"v", "", "1"}
JsonValues ==
    {Str(x) : x \in StrPayloads} \cup {Num(0), Num(1), Bool(FALSE), Bool(TRUE), Null}
    \cup {Obj(<<>>), Obj(<<Field("a", "v")>>)}

\* JSON.parse(text): the value whose JSON text it is; ParseFails when none
ParseFails(text) == \A v \in JsonValues : JSONstringify(v) # text
JSONparse(text) == CHOOSE v \in JsonValues : JSONstringify(v) = text

\* a guard that rejects every falsy value
isNilFalsy(v) == v \in {Null, Undefined, Num(0), Bool(FALSE), Str("")}

\* lodash isNil(value)
isNil(v) == v.t \in {"null", "undefined"}

\* ---------------------------------------------------------- data operations
Cmd(name, key, text, ttl) == [NoCmd EXCEPT !.name = name, !.key = key, !.text = text,
                                           !.ttl = ttl]

\* a set that drops the ttl
WriteCmdPlain(key, text, ttl) == Cmd("set", key, text, 0)

\* `ttl ? redis.setex(key, ttl, v) : redis.set(key, v)`
WriteCmd(key, text, ttl) ==
    IF ttl # NoTtl /\ ttl # 0 THEN Cmd("setex", key, text, ttl) ELSE Cmd("set", key, text, 0)

\* the answers of a batch none of whose commands could be written
RECURSIVE Unwritten(_, _)
Unwritten(batch, err) ==
    IF batch = <<>> THEN <<>> ELSE <<Reply(err, "", TRUE, {})>> \o Unwritten(Tail(batch), err)

\* an audit that finds no error
ErrorsNone(results) == 0

\* setBulk: `results.filter(([err]) => err !== null)` and the failure it throws
RECURSIVE Errors(_)
Errors(results) ==
    IF results = <<>> THEN 0
    ELSE (IF Head(results).err # "" THEN 1 ELSE 0) + Errors(Tail(results))

BulkFailure(f, n) == "Failed to set " \o ToString(f) \o " out of " \o ToString(n) \o " items"

\* a get that does not parse the text
DecodeRaw(r) == IF r.nil THEN Undefined ELSE Str(r.text)

\* a get without the miss branch
DecodeNoMiss(r) == IF ParseFails(r.text) THEN Str(r.text) ELSE JSONparse(r.text)

\* a get without the fallback to the raw text
DecodeStrict(r) ==
    IF r.nil \/ ParseFails(r.text) THEN Undefined ELSE JSONparse(r.text)

\* Cache.get, from the answer r of the store: undefined on a miss, else the
\* parsed text, else the raw text
Decode(r) ==
    IF r.nil THEN Undefined
    ELSE IF ParseFails(r.text) THEN Str(r.text)
    ELSE JSONparse(r.text)

\* a store whose isNewItem lets the failure through
RaiseAlways(p, err) == [p EXCEPT !.st = "err", !.err = err]

\* call p fails inside with err: isNewItem's catch logs the failure (kept in
\* err) and returns true; every other call fails to its caller
Raise(p, err) ==
    IF p.op = "isNewItem"
    THEN [p EXCEPT !.st = "ok", !.ret = Bool(TRUE), !.err = err]
    ELSE [p EXCEPT !.st = "err", !.err = Thrown(p.op, err)]

\* a store for which every item is new
IsNewAlways(existingItem) == Bool(TRUE)

\* isNewItem: `return existingItem === undefined`
IsNew(existingItem) == Bool(existingItem = Undefined)

\* what a pending call returns once its command is answered with answer r
\* (for a batch, rs are the answers to its commands)
Resume(p, r, rs) ==
    CASE p.cmd.name # "exec" /\ r.err # "" -> Raise(p, r.err)
      [] p.op = "get" -> [p EXCEPT !.st = "ok", !.ret = Decode(r)]
      [] p.op = "isNewItem" -> [p EXCEPT !.st = "ok", !.ret = IsNew(Decode(r))]
      [] p.op = "keys" -> [p EXCEPT !.st = "ok", !.keys = r.keys]
      [] p.op = "executePipeline" -> [p EXCEPT !.st = "ok", !.results = rs]
      [] p.op = "setBulk" ->
            IF Errors(rs) > 0
            THEN [p EXCEPT !.st = "err", !.err = BulkFailure(Errors(rs), Len(rs)),
                           !.results = rs]
            ELSE [p EXCEPT !.st = "ok", !.results = rs]
      [] OTHER -> [p EXCEPT !.st = "ok"]

\* getConnection(), then the command goes out on the handle.  A handle that
\* is not writable rejects a single command at once and answers each command
\* of a batch with that failure.
Issue(op, i, a, cmd) ==
    LET h == getConnection(i)
        p == WithArgs(Pending(op, i, cmd), a)
    IN /\ IF h = 0
          THEN /\ last' = Raise(WithArgs(Settled(op, i, "err", ""), a), ErrNotConnected)
               /\ UNCHANGED wire
          ELSE IF ~Writable(h)
          THEN /\ last' = IF cmd.name = "exec"
                          THEN Resume(p, Ok, Unwritten(cmd.batch, WriteError(h)))
                          ELSE Raise(p, WriteError(h))
               /\ UNCHANGED wire
          ELSE /\ CanCall
               /\ wire' = [wire EXCEPT ![h] = Append(@, p)]
               /\ last' = Idle
       /\ UNCHANGED <<lifeVars, waiters, down, store, testMode>>

\* the body of Cache.set(rawKey, value, ttl?), run for operation op that was
\* called with arguments a
setBody(op, i, a, k, v, ttl) ==
    IF isNil(v)
    THEN /\ last' = Raise(WithArgs(Settled(op, i, "err", ""), a), ErrInvalidValue)
         /\ UNCHANGED <<lifeVars, waiters, wire, down, store, testMode>>
    ELSE Issue(op, i, a, WriteCmd(getKey(k), JSONstringify(v), ttl))

\* Cache.set(rawKey, value, ttl?)
set(i, k, v, ttl) ==
    /\ cache[i].made
    /\ setBody("set", i, [KeyArg(k) EXCEPT !.val = v, !.ttl = ttl], k, v, ttl)

\* ---------------------------------------------------------- the cache store
\* `${namespace}:${key}`
fullKey(cs, key) == cs.namespace \o <<":">> \o key

\* a store whose default never applies
ttlOrDefaultDropped(cs, ttl) == ttl

\* saveItem's `ttl: number = defaultTTL`, with createCacheStore's
\* `defaultTTL = 60 * 60 * 24`: a default applies when the value is left out
ttlOrDefault(cs, ttl) ==
    IF ttl # NoTtl THEN ttl
    ELSE IF cs.defaultTTL # NoTtl THEN cs.defaultTTL
    ELSE DefaultTTL

\* saveItem(key, value, ttl?) of the cache store created with options cs:
\*   try { await cacheInstance().set(fullKey, value, ttl) } catch { throw SaveFailed }
saveItem(cs, key, value, ttl) ==
    LET a == [KeyArg(key) EXCEPT !.val = value, !.ttl = ttl, !.cs = cs]
    IN IF MustThrow(NoConfig)
       THEN /\ last' = WithArgs([Idle EXCEPT !.op = "saveItem", !.st = "err",
                                             !.err = SaveFailed(ErrNotInitialized)], a)
            /\ UNCHANGED <<lifeVars, waiters, wire, down, store, testMode>>
       ELSE setBody("saveItem", instance, a, fullKey(cs, key), value,
                    ttlOrDefault(cs, ttl))

\* the body of Cache.get(rawKey), run for operation op that was called with
\* arguments a
getBody(op, i, a, k) == Issue(op, i, a, Cmd("get", getKey(k), "", 0))

\* Cache.get(rawKey)
get(i, k) ==
    /\ cache[i].made
    /\ getBody("get", i, KeyArg(k), k)

\* isNewItem(key) of the cache store created with options cs:
\*   try { return (await cacheInstance().get(fullKey)) === undefined }
\*   catch { return true }
isNewItem(cs, key) ==
    LET a == [KeyArg(key) EXCEPT !.cs = cs]
    IN IF MustThrow(NoConfig)
       THEN /\ last' = Raise(WithArgs([Idle EXCEPT !.op = "isNewItem"], a),
                              ErrNotInitialized)
            /\ UNCHANGED <<lifeVars, waiters, wire, down, store, testMode>>
       ELSE getBody("isNewItem", instance, a, fullKey(cs, key))

\* Cache.keys(pattern = "*")
keys(i, pattern) ==
    /\ cache[i].made
    /\ Issue("keys", i, KeyArg(pattern), Cmd("keys", getKey(pattern), "", 0))

\* Cache.del(key)
del(i, k) ==
    /\ cache[i].made
    /\ Issue("del", i, KeyArg(k), Cmd("del", getKey(k), "", 0))

\* a pipeline that keeps the first command only
ExecFirstOnly(batch) ==
    [NoCmd EXCEPT !.name = "exec", !.batch = IF batch = <<>> THEN <<>> ELSE <<Head(batch)>>]

\* a pipeline that applies the key prefix to its commands
ExecPrefixed(batch) ==
    [NoCmd EXCEPT !.name = "exec",
                  !.batch = [n \in 1..Len(batch) |->
                                [batch[n] EXCEPT !.key = getKey(batch[n].key)]]]

\* redis.pipeline(); operations(pipeline); pipeline.exec(): the commands the
\* builder enqueued, as they are
Exec(batch) == [NoCmd EXCEPT !.name = "exec", !.batch = batch]

\* Cache.executePipeline(operations): batch is what the builder enqueues
executePipeline(i, batch) ==
    /\ cache[i].made
    /\ Issue("executePipeline", i, [NoArgs EXCEPT !.ops = batch], Exec(batch))

\* a builder that enqueues the first item only
BulkBatchFirstOnly(items) ==
    IF items = <<>> THEN <<>>
    ELSE <<Cmd("set", Head(items).key, "", 0)>>

\* setBulk's builder: one set/setex per item, no null guard
RECURSIVE BulkBatch(_)
BulkBatch(items) ==
    IF items = <<>> THEN <<>>
    ELSE <<WriteCmd(getKey(Head(items).key), JSONstringify(Head(items).value),
                    Head(items).ttl)>> \o BulkBatch(Tail(items))

\* Cache.setBulk(items)
setBulk(i, items) ==
    /\ cache[i].made
    /\ Issue("setBulk", i, [NoArgs EXCEPT !.items = items], Exec(BulkBatch(items)))

\* a command left unanswered on an ended handle is rejected; a rejected quit
\* makes shutdown() reject at its await, before it discards the handle, and
\* the commands of a rejected batch are each answered with the failure
onFlush(h) ==
    /\ client[h].status = "end"
    /\ wire[h] # <<>>
    /\ wire' = [wire EXCEPT ![h] = Tail(@)]
    /\ last' = LET p == Head(wire[h])
               IN IF p.cmd.name = "exec"
                  THEN Resume(p, Ok, Unwritten(p.cmd.batch, ErrClosed))
                  ELSE Raise(p, ErrClosed)
    /\ UNCHANGED <<lifeVars, waiters, down, store, testMode>>

\* the entry a set() or saveItem() call wrote remembers the value and the ttl
\* the call was given
Stamp(st, p, r) ==
    IF p.op \in {"set", "saveItem"} /\ r.err = ""
    THEN [st EXCEPT ![p.cmd.key].by = p.val, ![p.cmd.key].given = p.ttl,
                    ![p.cmd.key].cs = p.cs]
    ELSE st

\* the store answers the oldest command written on a ready handle, and the
\* call that wrote it resumes
reply(h) ==
    /\ client[h].status = "ready"
    /\ wire[h] # <<>>
    /\ Head(wire[h]).cmd.name # "quit"
    /\ Head(wire[h]).op # "flushCache"
    /\ LET p == Head(wire[h])
       IN /\ store' = IF p.cmd.name = "exec" THEN StoreAfterBatch(p.cmd.batch, store)
                      ELSE Stamp(StoreAfter(p.cmd, store), p, Answer(p.cmd, store))
          /\ last' = Resume(p, Answer(p.cmd, store), AnswersBatch(p.cmd.batch, store))
    /\ wire' = [wire EXCEPT ![h] = Tail(@)]
    /\ UNCHANGED <<lifeVars, waiters, down, testMode>>

\* --------------------------------------------------------------- flushCache
\* key.replace(/^test:/, ""): one leading test: is removed
StripTest(k) ==
    IF Len(k) >= Len(TestPrefix) /\ SubSeq(k, 1, Len(TestPrefix)) = TestPrefix
    THEN SubSeq(k, Len(TestPrefix) + 1, Len(k))
    ELSE k

\* the orders in which the store may list a set of keys
Orderings(S) ==
    {s \in [1..Cardinality(S) -> S] : \A a, b \in 1..Cardinality(S) : s[a] = s[b] => a = b}

\* flushCache(cache), up to its `await cache.keys()`
flushCache(i) ==
    /\ cache[i].made
    /\ Issue("flushCache", i, NoArgs, Cmd("keys", getKey(Star), "", 0))

\* the store answers the keys of flushCache(): each listed key has its
\* leading test: removed and is handed to cache.del(), all in one turn
\* (Promise.all over the del() calls); with no key listed the flush is over
flushKeys(h) ==
    /\ client[h].status = "ready"
    /\ wire[h] # <<>>
    /\ Head(wire[h]).op = "flushCache"
    /\ Head(wire[h]).cmd.name = "keys"
    /\ LET p == Head(wire[h])
           listed == Answer(p.cmd, store).keys
           r == getConnection(p.inst)
       IN \E order \in Orderings(listed) :
             LET dels == [n \in 1..Len(order) |->
                            [p EXCEPT !.cmd = Cmd("del", getKey(StripTest(order[n])), "", 0),
                                      !.keys = listed]]
             IN IF listed = {}
                THEN /\ last' = [p EXCEPT !.st = "ok"]
                     /\ wire' = [wire EXCEPT ![h] = Tail(@)]
                ELSE IF r = 0
                THEN /\ last' = Raise(p, ErrNotConnected)
                     /\ wire' = [wire EXCEPT ![h] = Tail(@)]
                ELSE /\ last' = Idle
                     /\ wire' = [wire EXCEPT ![h] = Tail(@) \o dels]
    /\ UNCHANGED <<lifeVars, waiters, down, store, testMode>>

\* the store answers one del of flushCache(); the flush is over with the last
flushDel(h) ==
    /\ client[h].status = "ready"
    /\ wire[h] # <<>>
    /\ Head(wire[h]).op = "flushCache"
    /\ Head(wire[h]).cmd.name = "del"
    /\ LET p == Head(wire[h])
       IN /\ store' = StoreAfter(p.cmd, store)
          /\ last' = IF \E n \in 2..Len(wire[h]) : wire[h][n].op = "flushCache"
                     THEN Idle
                     ELSE [p EXCEPT !.st = "ok"]
    /\ wire' = [wire EXCEPT ![h] = Tail(@)]
    /\ UNCHANGED <<lifeVars, waiters, down, testMode>>

\* one second passes: every entry ages
tick ==
    /\ \E k \in DOMAIN store : store[k].age < MaxAge
    /\ store' = [k \in DOMAIN store |->
                    [store[k] EXCEPT !.age = Min(@ + 1, MaxAge)]]
    /\ last' = Idle
    /\ UNCHANGED <<lifeVars, waiters, wire, down, testMode>>

\* --------------------------------------------------------------- the inputs
Keys == {<<"k">>}
Vals == {Str("v"), Null}
Item(k, v, ttl) == [key |-> k, value |-> v, ttl |-> ttl]
ItemLists == {<<>>, <<Item(<<"k">>, Str("v"), NoTtl)>>}
Batches == {<<Cmd("set", <<"k">>, Quote("v"), 0)>>}
LifeConfigs == {"cfgA"}

\* a step of a connection attempt, of a handle or of a pending call
LifeStep ==
    \/ \E h \in Attempts : onReady(h)
    \/ \E h \in Attempts : onError(h)
    \/ \E h \in Attempts : onClose(h)
    \/ \E h \in Attempts : onReconnecting(h)
    \/ \E h \in Attempts : onEnd(h)
    \/ \E a \in Attempts : onTimeout(a)
    \/ \E h \in Attempts : onFlush(h)
    \/ \E h \in Attempts : quitReply(h)

\* The connection lifecycle: the accessor, connect() and shutdown() called in
\* any order on any Cache object, and every handle event.
Next ==
    \/ \E cfg \in LifeConfigs \cup {NoConfig} : getInstance(cfg)
    \/ \E i \in Insts : connect(i)
    \/ \E i \in Insts : shutdown(i)
    \/ LifeStep

Spec == Init /\ [][Next]_vars

\* no command is in flight
Quiet == \A h \in Attempts : wire[h] = <<>>

\* The data operations on one Cache object across connects, disconnections
\* and shutdowns: the accessor constructs a single object in a run, and a
\* data operation is called when no command is in flight (connect() calls may
\* be pending, and shutdown() may be called with a command in flight).
NextOps ==
    \/ \E cfg \in LifeConfigs \cup {NoConfig} :
          (MustCreate(cfg) => FreeInsts = Insts) /\ getInstance(cfg)
    \/ \E i \in Insts : connect(i)
    \/ \E i \in Insts : shutdown(i)
    \/ LifeStep
    \/ \E i \in Insts, k \in Keys, v \in Vals : Quiet /\ set(i, k, v, NoTtl)
    \/ \E i \in Insts, k \in Keys : Quiet /\ get(i, k)
    \/ \E i \in Insts : Quiet /\ keys(i, Star)
    \/ \E i \in Insts, k \in Keys : Quiet /\ del(i, k)
    \/ \E i \in Insts, b \in Batches : Quiet /\ executePipeline(i, b)
    \/ \E i \in Insts, items \in ItemLists : Quiet /\ setBulk(i, items)
    \/ \E h \in Attempts : reply(h)

SpecOps == Init /\ [][NextOps]_vars

\* The singleton accessor called with every configuration, around one
\* connection: connect() starts a single attempt in a run.
NextSingleton ==
    \/ \E cfg \in Configs \cup {NoConfig} : getInstance(cfg)
    \/ \E i \in Insts : FreeAttempts = Attempts /\ connect(i)
    \/ \E i \in Insts : shutdown(i)
    \/ LifeStep

SpecSingleton == Init /\ [][NextSingleton]_vars

\* The data operations on a connected object, with every shape of value,
\* two keys, and the process in test mode or not: one object, one connection
\* attempt, and a connection that, once lost, is not restored.
DataKeys == {<<"k">>, <<"j">>}
DataVals ==
    {Str("v"), Str(""), Num(0), Bool(FALSE), Obj(<<>>), Obj(<<Field("a", "v")>>),
     Null, Undefined}
Patterns == {Star, <<"k">>}
\* texts written to the store behind the manager's back, valid JSON or not
RawTexts == {"v", "1"}
RawBatches ==
    {<<Cmd("set", key, text, 0)>> : key \in {<<"k">>, TestPrefix \o <<"k">>}, text \in RawTexts}

DataItemLists == {<<Item(<<"j">>, Str("v"), NoTtl)>>}

InitData ==
    /\ InitLife
    /\ testMode \in BOOLEAN

LostForGood ==
    \/ \E h \in Attempts : onClose(h)
    \/ \E h \in Attempts : onEnd(h)
    \/ \E h \in Attempts : onFlush(h)

NextData ==
    \/ \E cfg \in LifeConfigs : FreeInsts = Insts /\ getInstance(cfg)
    \/ \E i \in Insts : FreeAttempts = Attempts /\ connect(i)
    \/ \E h \in Attempts : onReady(h)
    \/ LostForGood
    \/ \E i \in Insts, k \in DataKeys, v \in DataVals : Quiet /\ set(i, k, v, NoTtl)
    \/ \E i \in Insts, k \in DataKeys : Quiet /\ get(i, k)
    \/ \E i \in Insts, k \in DataKeys : Quiet /\ del(i, k)
    \/ \E i \in Insts, pattern \in Patterns : Quiet /\ keys(i, pattern)
    \/ \E i \in Insts, b \in RawBatches : Quiet /\ executePipeline(i, b)
    \/ \E i \in Insts, items \in DataItemLists : Quiet /\ setBulk(i, items)
    \/ \E h \in Attempts : reply(h)

SpecData == InitData /\ [][NextData]_vars

\* Batches: pipelines whose commands depend on one another or fail, and bulk
\* writes with an item the store rejects, with get to read back.
BadTtl == -2        \* a negative ttl
PipeBatches ==
    {<<>>,
     <<Cmd("set", <<"k">>, "a", 0), Cmd("get", <<"k">>, "", 0)>>,
     <<Cmd("set", <<"k">>, "a", 0), Cmd("hget", <<"k">>, "", 0), Cmd("set", <<"j">>, "b", 0)>>,
     <<Cmd("get", <<"k">>, "", 0), Cmd("set", <<"k">>, "b", 0), Cmd("get", <<"k">>, "", 0)>>}
BulkItemLists ==
    {<<>>,
     <<Item(<<"k">>, Str("v"), NoTtl), Item(<<"j">>, Num(1), 1)>>,
     <<Item(<<"k">>, Num(0), NoTtl), Item(<<"j">>, Str("v"), BadTtl),
       Item(<<"l">>, Str(""), NoTtl)>>}
BatchKeys == {<<"k">>, <<"j">>, <<"l">>}

NextBatch ==
    \/ \E cfg \in LifeConfigs : FreeInsts = Insts /\ getInstance(cfg)
    \/ \E i \in Insts : FreeAttempts = Attempts /\ connect(i)
    \/ \E h \in Attempts : onReady(h)
    \/ LostForGood
    \/ \E i \in Insts, b \in PipeBatches : Quiet /\ executePipeline(i, b)
    \/ \E i \in Insts, items \in BulkItemLists : Quiet /\ setBulk(i, items)
    \/ \E i \in Insts, k \in BatchKeys : Quiet /\ get(i, k)
    \/ \E h \in Attempts : reply(h)

SpecBatch == Init /\ [][NextBatch]_vars

\* The cache store: saveItem on stores created with and without a default
\* TTL, called with and without a ttl, before and after the singleton exists.
CacheStores == {CacheStore(<<"n">>, NoTtl), CacheStore(<<"n">>, 2)}
StoreKeys == {<<"k">>}
StoreVals == {Str("v"), Null}
StoreTtls == {NoTtl, 1}

NextStore ==
    \/ \E cfg \in LifeConfigs : FreeInsts = Insts /\ getInstance(cfg)
    \/ \E i \in Insts : FreeAttempts = Attempts /\ connect(i)
    \/ \E h \in Attempts : onReady(h)
    \/ LostForGood
    \/ \E cs \in CacheStores, k \in StoreKeys, v \in StoreVals, ttl \in StoreTtls :
          Quiet /\ saveItem(cs, k, v, ttl)
    \/ \E i \in Insts, k \in StoreKeys : Quiet /\ get(i, fullKey(CacheStore(<<"n">>, NoTtl), k))
    \/ \E h \in Attempts : reply(h)
    \/ tick

SpecStore == InitData /\ [][NextStore]_vars

\* isNewItem in every state of the manager: one object constructed in a run,
\* connects, shutdowns and every handle event, with saveItem to store the key.
NewStores == {CacheStore(<<"n">>, NoTtl)}

NextNew ==
    \/ \E cfg \in LifeConfigs : (MustCreate(cfg) => FreeInsts = Insts) /\ getInstance(cfg)
    \/ \E i \in Insts : connect(i)
    \/ \E i \in Insts : shutdown(i)
    \/ LifeStep
    \/ \E cs \in NewStores, k \in StoreKeys : Quiet /\ isNewItem(cs, k)
    \/ \E cs \in NewStores, k \in StoreKeys : Quiet /\ saveItem(cs, k, Str("v"), NoTtl)
    \/ \E h \in Attempts : reply(h)

SpecNew == Init /\ [][NextNew]_vars

\* The items of one cache store on a connected manager: saveItem with and
\* without a ttl, isNewItem, texts written at the item's physical key behind
\* the store's back, and the seconds passing.
ItemStores == {CacheStore(<<"n">>, NoTtl), CacheStore(<<"n">>, 2)}
ItemKeys == {<<"k">>}
ItemVals == {Str("v"), Str("")}
ItemTtls == {NoTtl, 1}
InvalidJson == "{invalid-json"
ItemBatches ==
    {<<Cmd("set", prefix \o <<"n", ":", "k">>, InvalidJson, 0)>> : prefix \in {<<>>, TestPrefix}}

NextItems ==
    \/ \E cfg \in LifeConfigs : FreeInsts = Insts /\ getInstance(cfg)
    \/ \E i \in Insts : FreeAttempts = Attempts /\ connect(i)
    \/ \E h \in Attempts : onReady(h)
    \/ LostForGood
    \/ \E cs \in ItemStores, k \in ItemKeys, v \in ItemVals, ttl \in ItemTtls :
          Quiet /\ saveItem(cs, k, v, ttl)
    \/ \E cs \in ItemStores, k \in ItemKeys : Quiet /\ isNewItem(cs, k)
    \/ \E i \in Insts, b \in ItemBatches : Quiet /\ executePipeline(i, b)
    \/ \E h \in Attempts : reply(h)
    \/ tick

SpecItems == InitData /\ [][NextItems]_vars

\* Two cache stores with different namespaces over one manager, a namespace
\* and a key containing the separator.
SpaceStores == {CacheStore(<<"n">>, NoTtl), CacheStore(<<"n", ":", "k">>, NoTtl)}
SpaceKeys == {<<"j">>, <<"k", ":", "j">>}
SpaceVals == {Str("v"), Str("w")}

NextSpaces ==
    \/ \E cfg \in LifeConfigs : FreeInsts = Insts /\ getInstance(cfg)
    \/ \E i \in Insts : FreeAttempts = Attempts /\ connect(i)
    \/ \E h \in Attempts : onReady(h)
    \/ LostForGood
    \/ \E cs \in SpaceStores, k \in SpaceKeys, v \in SpaceVals :
          Quiet /\ saveItem(cs, k, v, NoTtl)
    \/ \E cs \in SpaceStores, k \in SpaceKeys : Quiet /\ isNewItem(cs, k)
    \/ \E i \in Insts, cs \in SpaceStores, k \in SpaceKeys : Quiet /\ get(i, fullKey(cs, k))
    \/ \E h \in Attempts : reply(h)

SpecSpaces == InitData /\ [][NextSpaces]_vars

\* An established connection that is lost and restored by the client: one
\* object, one connect() attempt, every event of its handle, and set, get and
\* del called on the object whenever no command is in flight.
SteadyKeys == {<<"k">>}
SteadyVals == {Str("v"), Null}

NextSteady ==
    \/ \E cfg \in LifeConfigs : FreeInsts = Insts /\ getInstance(cfg)
    \/ \E i \in Insts : FreeAttempts = Attempts /\ connect(i)
    \/ \E h \in Attempts : onReady(h)
    \/ \E h \in Attempts : onError(h)
    \/ \E h \in Attempts : onClose(h)
    \/ \E h \in Attempts : onReconnecting(h)
    \/ \E h \in Attempts : onEnd(h)
    \/ \E a \in Attempts : onTimeout(a)
    \/ \E h \in Attempts : onFlush(h)
    \/ \E i \in Insts, k \in SteadyKeys, v \in SteadyVals : Quiet /\ set(i, k, v, NoTtl)
    \/ \E i \in Insts, k \in SteadyKeys : Quiet /\ get(i, k)
    \/ \E i \in Insts, k \in SteadyKeys : Quiet /\ del(i, k)
    \/ \E h \in Attempts : reply(h)

SpecSteady == Init /\ [][NextSteady]_vars

\* The connection lifecycle of one object under the event loop's guarantee
\* that an armed timer fires: the 5 s timer of an attempt runs its callback
\* unless clearTimeout() disarmed it.
NextLive ==
    \/ \E cfg \in LifeConfigs : FreeInsts = Insts /\ getInstance(cfg)
    \/ \E i \in Insts : connect(i)
    \/ \E i \in Insts : shutdown(i)
    \/ LifeStep

SpecLive == Init /\ [][NextLive]_vars /\ WF_vars(\E a \in Attempts : onTimeout(a))

\* shutdown() racing get and set on one connection: data operations are
\* called while commands, the quit of shutdown() included, are in flight.
RaceKeys == {<<"k">>}
RaceVals == {Str("v"), Str("w")}

NextRace ==
    \/ \E cfg \in LifeConfigs : FreeInsts = Insts /\ getInstance(cfg)
    \/ \E i \in Insts : FreeAttempts = Attempts /\ connect(i)
    \/ \E h \in Attempts : onReady(h)
    \/ \E i \in Insts : shutdown(i)
    \/ \E h \in Attempts : quitReply(h)
    \/ LostForGood
    \/ \E i \in Insts, k \in RaceKeys, v \in RaceVals : set(i, k, v, NoTtl)
    \/ \E i \in Insts, k \in RaceKeys : get(i, k)
    \/ \E h \in Attempts : reply(h)

SpecRace == Init /\ [][NextRace]_vars

\* Writes with every kind of ttl, a ttl of 0 included: set, setBulk and
\* saveItem on stores created with and without a default TTL of 0.
ZeroKeys == {<<"k">>}
ZeroTtls == {NoTtl, 0, 1}
ZeroItemLists ==
    {<<Item(<<"k">>, Str("v"), ttl), Item(<<"j">>, Str("w"), NoTtl)>> : ttl \in {0, 1}}
ZeroStores == {CacheStore(<<"n">>, NoTtl), CacheStore(<<"n">>, 0)}

NextZero ==
    \/ \E cfg \in LifeConfigs : FreeInsts = Insts /\ getInstance(cfg)
    \/ \E i \in Insts : FreeAttempts = Attempts /\ connect(i)
    \/ \E h \in Attempts : onReady(h)
    \/ LostForGood
    \/ \E i \in Insts, k \in ZeroKeys, ttl \in ZeroTtls : Quiet /\ set(i, k, Str("v"), ttl)
    \/ \E i \in Insts, items \in ZeroItemLists : Quiet /\ setBulk(i, items)
    \/ \E cs \in ZeroStores, k \in ZeroKeys, ttl \in ZeroTtls :
          Quiet /\ saveItem(cs, k, Str("v"), ttl)
    \/ \E i \in Insts, k \in ZeroKeys : Quiet /\ get(i, k)
    \/ \E h \in Attempts : reply(h)
    \/ tick

SpecZero == Init /\ [][NextZero]_vars

\* Bulk writes against single writes: lists with a key listed twice, with a
\* null value and with a ttl, the empty list, and get to read back.
BulkKeys == {<<"k">>, <<"j">>}
BulkLists ==
    {<<>>,
     <<Item(<<"k">>, Str("v"), NoTtl), Item(<<"k">>, Str("w"), 1)>>,
     <<Item(<<"k">>, Null, NoTtl), Item(<<"j">>, Str("v"), 1)>>}

NextBulk ==
    \/ \E cfg \in LifeConfigs : FreeInsts = Insts /\ getInstance(cfg)
    \/ \E i \in Insts : FreeAttempts = Attempts /\ connect(i)
    \/ \E h \in Attempts : onReady(h)
    \/ LostForGood
    \/ \E i \in Insts, items \in BulkLists : Quiet /\ setBulk(i, items)
    \/ \E i \in Insts, k \in BulkKeys : Quiet /\ set(i, k, Str("v"), NoTtl)
    \/ \E i \in Insts, k \in BulkKeys : Quiet /\ get(i, k)
    \/ \E h \in Attempts : reply(h)
    \/ tick

SpecBulk == InitData /\ [][NextBulk]_vars

\* flushCache on a connected object, in test mode and outside it, over keys
\* written through the manager and behind its back, some of them named
\* test:...; nothing is written while a flush is under way.
FlushKeys == {<<"x">>, TestPrefix \o <<"x">>}
FlushBatches == {<<Cmd("set", key, "v", 0)>> : key \in FlushKeys}

NextFlush ==
    \/ \E cfg \in LifeConfigs : FreeInsts = Insts /\ getInstance(cfg)
    \/ \E i \in Insts : FreeAttempts = Attempts /\ connect(i)
    \/ \E h \in Attempts : onReady(h)
    \/ LostForGood
    \/ \E i \in Insts, k \in FlushKeys : Quiet /\ set(i, k, Str("v"), NoTtl)
    \/ \E i \in Insts, b \in FlushBatches : Quiet /\ executePipeline(i, b)
    \/ \E i \in Insts : Quiet /\ flushCache(i)
    \/ \E h \in Attempts : flushKeys(h)
    \/ \E h \in Attempts : flushDel(h)
    \/ \E i \in Insts : Quiet /\ keys(i, Star)
    \/ \E h \in Attempts : reply(h)

SpecFlush == InitData /\ [][NextFlush]_vars

\* The retry policy on its own: every attempt number up to MaxRetryAttempt
\* with every value of the jitter.
RetryInputs == 1..MaxRetryAttempt
AllJitters == 0..(JitterRange - 1)

InitRetry ==
    /\ instance = 0
    /\ cache = [i \in Insts |-> NoCache]
    /\ client = [h \in Attempts |-> NoClient]
    /\ promise = [a \in Attempts |-> "none"]
    /\ waiters = [a \in Attempts |-> 0]
    /\ wire = [h \in Attempts |-> <<>>]
    /\ down = [i \in Insts |-> FALSE]
    /\ store = <<>>
    /\ testMode = FALSE
    /\ \E attempt \in RetryInputs, jitter \in AllJitters :
          last = [Idle EXCEPT !.op = "retryStrategy", !.st = "wait", !.n = attempt,
                              !.val = Num(jitter)]

\* the client calls config.retryStrategy(attempt)
callRetryStrategy ==
    /\ last.op = "retryStrategy"
    /\ last.st = "wait"
    /\ last' = LET d == retryStrategy(last.n, last.val.n)
               IN [last EXCEPT !.st = "ok", !.ret = IF d = RetryNull THEN Null ELSE Num(d)]
    /\ UNCHANGED <<lifeVars, waiters, wire, down, store, testMode>>

NextRetry == callRetryStrategy

SpecRetry == InitRetry /\ [][NextRetry]_vars

\* Expiry: set with and without a ttl, get and del on one key while the
\* seconds pass.
TtlKeys == {<<"k">>}
TtlVals == {Str("v"), Num(1)}
Ttls == {NoTtl, 1, 2}

NextTtl ==
    \/ \E cfg \in LifeConfigs : FreeInsts = Insts /\ getInstance(cfg)
    \/ \E i \in Insts : FreeAttempts = Attempts /\ connect(i)
    \/ \E h \in Attempts : onReady(h)
    \/ LostForGood
    \/ \E i \in Insts, k \in TtlKeys, v \in TtlVals, ttl \in Ttls : Quiet /\ set(i, k, v, ttl)
    \/ \E i \in Insts, k \in TtlKeys : Quiet /\ get(i, k)
    \/ \E i \in Insts, k \in TtlKeys : Quiet /\ del(i, k)
    \/ \E h \in Attempts : reply(h)
    \/ tick

SpecTtl == Init /\ [][NextTtl]_vars

\* ================================================================== claims
DataOps == {"get", "set", "del", "keys", "executePipeline", "setBulk"}

\* the attempts (handles) opened by Cache object i
OwnedBy(i) == {a \in Attempts : client[a].owner = i}

\* no attempt of object i has settled yet
Fresh(i) == \A a \in OwnedBy(i) : promise[a] = "pending"

\* the handles that are connecting or connected
LiveHandles == {h \in Attempts : client[h].status \in {"connecting", "ready"}}

\* C1: while no attempt of a Cache object has settled, however many connect()
\* calls were made on it, it has opened at most one handle, and every pending
\* connect() call awaits that handle's attempt; when the attempt settles, all
\* the calls awaiting it resume together with its one outcome, none is left
\* pending, and a resolved attempt's handle is ready.
C1_SingleFlight ==
    /\ \A i \in Insts : Fresh(i) =>
          /\ Cardinality(OwnedBy(i)) <= 1
          /\ \A a \in OwnedBy(i) : /\ cache[i].redis = a
                                    /\ cache[i].connectPromise = a
                                    /\ waiters[a] >= 1
    /\ (last.op = "connect" /\ last.pr # 0) =>
          /\ last.n >= 1
          /\ waiters[last.pr] = 0
          /\ promise[last.pr] = last.st
          /\ last.st \in {"ok", "err"}
          /\ last.st = "ok" => client[last.pr].status = "ready"

\* two connect() calls on a fresh object settled together on its only handle
C1_Witness ==
    /\ last.op = "connect"
    /\ last.pr # 0
    /\ last.n = 2
    /\ OwnedBy(last.inst) = {last.pr}

\* C2: at most one handle is connecting or connected at any time.
C2_OneLiveHandle == Cardinality(LiveHandles) <= 1

\* the data operation calls in flight
InFlightData ==
    {p \in UNION {{wire[h][n] : n \in 1..Len(wire[h])} : h \in Attempts} :
        p.op \in DataOps}

\* the saveItem calls in flight
InFlightSaves ==
    {p \in UNION {{wire[h][n] : n \in 1..Len(wire[h])} : h \in Attempts} :
        p.op = "saveItem"}

\* the last call is a data operation that has settled
DataSettled == last.op \in DataOps /\ last.st \in {"ok", "err"}

\* the last call is set with a null or undefined value
NilSet == last.op = "set" /\ isNil(last.val)

\* C3: a data operation (with a value that can be stored) called on an object
\* whose shutdown() has completed, before a later connect() on it has
\* resolved, fails with NotConnected and writes no command; and when a
\* connect() resolves the object is connected.
C3_FailFastAfterShutdown ==
    /\ (DataSettled /\ last.down /\ ~NilSet) =>
          last.st = "err" /\ last.err = ErrNotConnected
    /\ \A p \in InFlightData : ~p.down
    /\ (last.op = "connect" /\ last.st = "ok") => isConnected(last.inst)

\* C4 as stated: a data operation called while the readiness flag is false or
\* the handle is absent fails with NotConnected whatever its arguments are,
\* and writes no command.
C4_GateFirst ==
    /\ (DataSettled /\ ~last.gate) =>
          last.st = "err" /\ last.err = ErrNotConnected /\ last.cmd = NoCmd
    /\ \A p \in InFlightData : p.gate

\* C4 amended: a data operation called while the readiness flag is false or
\* the handle is absent fails and writes no command; set with a null or
\* undefined value fails with InvalidValue, every other call (setBulk with an
\* empty list included) fails with NotConnected.
C4_GateFirstAfterNullGuard ==
    /\ (DataSettled /\ ~last.gate) =>
          /\ last.st = "err"
          /\ last.err = IF NilSet THEN ErrInvalidValue ELSE ErrNotConnected
          /\ last.cmd = NoCmd
    /\ \A p \in InFlightData : p.gate

\* set with a null value was called on an object that is not connected
C4_Witness ==
    /\ DataSettled
    /\ ~last.gate
    /\ NilSet
    /\ last.err = ErrInvalidValue

\* C5: a connect() call on an object that is connected returns at once with
\* success and changes nothing: no handle is opened, no attempt is started,
\* and the handle, the readiness flag and the marker are as before.
C5_ConnectReadyNoOp ==
    [][\A i \in Insts : (isConnected(i) /\ connect(i)) =>
          /\ UNCHANGED <<instance, cache, client, promise, waiters, wire, store>>
          /\ last'.op = "connect" /\ last'.st = "ok" /\ last'.pr = 0
          /\ isConnected(i)']_vars

\* a connect() call made on a connected object returned at once
C5_Witness ==
    /\ last.op = "connect"
    /\ last.st = "ok"
    /\ last.pr = 0
    /\ last.gate
    /\ isConnected(last.inst)

\* the latest attempt of object i failed
LatestFailed(i) == cache[i].redis # 0 /\ promise[cache[i].redis] = "err"

\* C6: when an attempt settles with a failure the marker is cleared, and a
\* connect() call made after the object's latest attempt failed starts a fresh
\* attempt on a new handle.
C6_FreshAttemptAfterFailure ==
    [][/\ (last'.op = "connect" /\ last'.st = "err") =>
             cache'[last'.inst].connectPromise = 0
       /\ \A i \in Insts : (LatestFailed(i) /\ connect(i)) =>
             /\ cache'[i].connectPromise # 0
             /\ cache'[i].redis = cache'[i].connectPromise
             /\ promise[cache'[i].redis] = "none"
             /\ promise'[cache'[i].redis] = "pending"]_vars

\* C7: the handle of a failed attempt never becomes ready.
C7_FailedHandleNeverReady ==
    \A h \in Attempts : promise[h] = "err" => client[h].status # "ready"

\* the state shutdown() returns in
AfterShutdown ==
    (last.op = "shutdown" /\ last.st = "ok") =>
        /\ ~isConnected(last.inst)
        /\ cache[last.inst].redis = 0
        /\ instance = 0
        /\ MustThrow(NoConfig)
        /\ \A cfg \in Configs : MustCreate(cfg)

\* the object the accessor constructs
ConstructedUnconnected ==
    (last.op = "getInstance" /\ last.made) =>
        /\ ~isConnected(last.inst)
        /\ cache[last.inst].redis = 0

Named == store[last.cmd.key]

\* the last call is a get that returned
GetReturned == last.op = "get" /\ last.st = "ok"

\* C11: a set() of a non-null value that returns has written an entry that
\* remembers the value; and a get() of a key whose entry was written by set()
\* and was neither overwritten, deleted nor expired since returns a value
\* equal to the one set() was given.
C11_RoundTrip ==
    /\ (last.op = "set" /\ last.st = "ok") =>
          /\ last.cmd.key \in DOMAIN store
          /\ Named.by = last.val
          /\ last.val \notin {Null, Undefined}
    /\ (GetReturned /\ Live(store, last.cmd.key) /\ Named.by # Undefined) =>
          last.ret = Named.by

\* get returned the object that set was given
C11_Witness ==
    /\ GetReturned
    /\ Live(store, last.cmd.key)
    /\ Named.by = Obj(<<Field("a", "v")>>)
    /\ last.ret = Obj(<<Field("a", "v")>>)

\* C12: set fails with InvalidValue exactly when its value is null or
\* undefined, connected or not; the failing call writes no command and leaves
\* the store as it is.
C12_NullGuard ==
    /\ []((last.op = "set" /\ last.st \in {"ok", "err"}) =>
            ((last.st = "err" /\ last.err = ErrInvalidValue)
                <=> last.val \in {Null, Undefined}))
    /\ [][\A i \in Insts, k \in DataKeys, v \in {Null, Undefined} :
             set(i, k, v, NoTtl) =>
                /\ last'.st = "err" /\ last'.err = ErrInvalidValue
                /\ last'.cmd = NoCmd
                /\ UNCHANGED <<store, wire>>]_vars

\* set with null failed on a connected object while the key held a value
C12_Witness ==
    /\ last.op = "set"
    /\ last.err = ErrInvalidValue
    /\ last.val = Null
    /\ last.gate
    /\ (IF testMode THEN TestPrefix \o last.key ELSE last.key) \in DOMAIN store

\* the key holds no entry, or one that has expired
Gone(key) ==
    \/ key \notin DOMAIN store
    \/ store[key].ttl > 0 /\ store[key].age >= store[key].ttl

\* the store answers the command of a get() call
GetAnswered ==
    \E h \in Attempts : wire[h] # <<>> /\ Head(wire[h]).op = "get" /\ reply(h)

\* a step of a get() call: the call, or the answer to its command
GetStep == GetAnswered \/ \E i \in Insts, k \in TtlKeys : get(i, k)

\* C13: a get() whose command is answered for a key that was never set, was
\* deleted or has expired returns undefined, without error; and no step of a
\* get() call changes the store or a field of the manager.
C13_MissSentinel ==
    /\ []((GetReturned /\ Gone(last.cmd.key)) => last.ret = Undefined)
    /\ [][GetAnswered => last'.st = "ok"]_vars
    /\ [][GetStep => UNCHANGED <<store, instance, cache, client, promise, testMode>>]_vars

\* get returned undefined for a key whose entry has expired
C13_Witness ==
    /\ GetReturned
    /\ last.ret = Undefined
    /\ last.cmd.key \in DOMAIN store
    /\ Gone(last.cmd.key)

\* C14: a get() of a key that set() wrote with a ttl of at least one second,
\* not written since, returns the value given to set() while fewer than ttl
\* seconds have passed, and undefined once more than ttl seconds have passed.
C14_TtlExpiry ==
    (GetReturned /\ last.cmd.key \in DOMAIN store /\ Named.given >= 1) =>
        /\ Named.age < Named.given => last.ret = Named.by
        /\ Named.age > Named.given => last.ret = Undefined

\* get returned undefined more than ttl seconds after set
C14_Witness ==
    /\ GetReturned
    /\ last.cmd.key \in DOMAIN store
    /\ Named.given = 1
    /\ Named.age = 2
    /\ last.ret = Undefined

\* the store answers the command of a del() call
DelAnswered(h) == wire[h] # <<>> /\ Head(wire[h]).op = "del" /\ reply(h)

\* C15: a del() whose command is answered succeeds whether or not the key
\* holds an entry; afterwards the key holds none, every other key holds what
\* it held, and a del() of a key that holds nothing changes nothing; a get()
\* of a key that holds no entry returns undefined.
C15_DelIdempotent ==
    /\ [][\A h \in Attempts : DelAnswered(h) =>
             LET key == Head(wire[h]).cmd.key
             IN /\ last'.st = "ok"
                /\ DOMAIN store' = DOMAIN store \ {key}
                /\ \A k \in DOMAIN store' : store'[k] = store[k]
                /\ key \notin DOMAIN store => store' = store]_vars
    /\ []((GetReturned /\ last.cmd.key \notin DOMAIN store) => last.ret = Undefined)

\* del returned for one key while the other key keeps its entry
C15_Witness ==
    /\ last.op = "del"
    /\ last.st = "ok"
    /\ last.cmd.key \notin DOMAIN store
    /\ DOMAIN store # {}

\* C16: a get() fails only with NotConnected or with a failure of the
\* connection; when the key holds a text that is not valid JSON, get() returns
\* that text as it is.
C16_RawTextFallback ==
    /\ (last.op = "get" /\ last.st = "err") =>
          last.err \in {ErrNotConnected, ErrNotWritable, ErrClosed}
    /\ (GetReturned /\ Live(store, last.cmd.key) /\ ParseFails(Named.text)) =>
          last.ret = Str(Named.text)

\* get returned a stored text that is not JSON
C16_Witness ==
    /\ GetReturned
    /\ Live(store, last.cmd.key)
    /\ Named.text = "v"
    /\ last.ret = Str("v")

\* the rule of key prefixing
Prefixed(k) == IF testMode THEN <<"t", "e", "s", "t", ":">> \o k ELSE k

\* the calls that wrote a command: those in flight and the one that settled
Written == InFlightData \cup (IF last.cmd # NoCmd /\ last.op \in DataOps THEN {last} ELSE {})

\* C17: the command of set, get, del and keys names the prefixed key or
\* pattern, and the commands of setBulk name the prefixed keys of its items;
\* set() stores its value at the prefixed key, and keys() returns exactly the
\* stored keys that match the prefixed pattern, with their prefix.
C17_KeyPrefix ==
    /\ \A p \in Written :
          /\ p.op \in {"set", "get", "del", "keys"} => p.cmd.key = Prefixed(p.key)
          /\ p.op = "setBulk" =>
                /\ Len(p.cmd.batch) = Len(p.items)
                /\ \A n \in 1..Len(p.items) : p.cmd.batch[n].key = Prefixed(p.items[n].key)
    /\ (last.op = "set" /\ last.st = "ok") =>
          /\ Prefixed(last.key) \in DOMAIN store
          /\ store[Prefixed(last.key)].by = last.val
    /\ (last.op = "keys" /\ last.st = "ok") =>
          last.keys = {k \in DOMAIN store : GlobMatch(Prefixed(last.key), k)}

\* in test mode keys() returned a prefixed key
C17_Witness ==
    /\ testMode
    /\ last.op = "keys"
    /\ last.st = "ok"
    /\ TestPrefix \o <<"k">> \in last.keys

\* the commands of the batch were answered by the store
Applied(rs) == \A n \in 1..Len(rs) : rs[n].err \notin {ErrNotWritable, ErrClosed}

\* the commands before the n-th that set the key of the n-th
SetsBefore(ops, n) == {m \in 1..(n - 1) : ops[m].name = "set" /\ ops[m].key = ops[n].key}
SetsAfter(ops, n) ==
    {m \in (n + 1)..Len(ops) : ops[m].name = "set" /\ ops[m].key = ops[n].key}
Latest(S) == CHOOSE m \in S : \A x \in S : x <= m

\* C18: executePipeline() called with the gate open returns, without raising,
\* one pair per command the builder enqueued; when the store answered the
\* batch, a get after a set of the same key is answered with the text of the
\* latest such set, a command that fails (hget on a key holding a string)
\* carries its error in its own pair, and every set of the batch, also after a
\* failed command, is applied: the key holds the text of its last set.
C18_PipelineOrder ==
    (last.op = "executePipeline" /\ last.st \in {"ok", "err"} /\ last.gate) =>
        /\ last.st = "ok"
        /\ Len(last.results) = Len(last.ops)
        /\ Applied(last.results) =>
              \A n \in 1..Len(last.ops) :
                 LET c == last.ops[n]
                     r == last.results[n]
                 IN /\ (c.name = "get" /\ SetsBefore(last.ops, n) # {}) =>
                          /\ r.err = "" /\ ~r.nil
                          /\ r.text = last.ops[Latest(SetsBefore(last.ops, n))].text
                    /\ (c.name = "hget" /\ SetsBefore(last.ops, n) # {}) =>
                          r.err = ErrWrongType
                    /\ c.name = "set" =>
                          /\ r.err = ""
                          /\ SetsAfter(last.ops, n) = {} =>
                                c.key \in DOMAIN store /\ store[c.key].text = c.text

\* a batch whose second command failed returned, its third command applied
C18_Witness ==
    /\ last.op = "executePipeline"
    /\ last.st = "ok"
    /\ Len(last.results) = 3
    /\ last.results[2].err = ErrWrongType
    /\ last.results[3].err = ""
    /\ <<"j">> \in DOMAIN store
    /\ store[<<"j">>].text = "b"

\* the results that carry an error
Failed(rs) == {n \in 1..Len(rs) : rs[n].err # ""}

\* C19: setBulk() called with the gate open audits one result per item: with
\* f >= 1 failed results out of n it fails with 'Failed to set f out of n
\* items', with none it resolves; the items whose command succeeded stay
\* stored, each key holding the text of its item.
C19_BulkPartialFailure ==
    (last.op = "setBulk" /\ last.st \in {"ok", "err"} /\ last.gate) =>
        LET f == Cardinality(Failed(last.results))
            n == Len(last.items)
        IN /\ Len(last.results) = n
           /\ f = 0 => last.st = "ok"
           /\ f >= 1 =>
                 /\ last.st = "err"
                 /\ last.err = "Failed to set " \o ToString(f) \o " out of "
                                  \o ToString(n) \o " items"
           /\ \A m \in 1..n \ Failed(last.results) :
                 /\ Prefixed(last.items[m].key) \in DOMAIN store
                 /\ store[Prefixed(last.items[m].key)].text
                       = JSONstringify(last.items[m].value)

\* setBulk failed for one item of three, the other two stored
C19_Witness ==
    /\ last.op = "setBulk"
    /\ last.err = "Failed to set 1 out of 3 items"
    /\ Failed(last.results) = {2}
    /\ Live(store, <<"k">>)
    /\ Live(store, <<"l">>)

\* the store answers the command of a saveItem() call
SaveAnswered(h) == wire[h] # <<>> /\ Head(wire[h]).op = "saveItem" /\ reply(h)

\* the ttl saveItem is to write with: the one given, else the store's default,
\* else 24 hours
Expiry(p) ==
    IF p.ttl # NoTtl THEN p.ttl
    ELSE IF p.cs.defaultTTL # NoTtl THEN p.cs.defaultTTL
    ELSE 86400

SaveSettled == last.op = "saveItem" /\ last.st \in {"ok", "err"}

\* the failures set() and the accessor raise, and those of the connection
SetFailures ==
    {ErrNotInitialized, ErrInvalidValue, ErrNotConnected, ErrNotWritable, ErrClosed}

\* a command of a saveItem() call is rejected with the handle ended
SaveFlushed(h) == wire[h] # <<>> /\ Head(wire[h]).op = "saveItem" /\ onFlush(h)

\* C21: a saveItem() call that settles either resolves, and then its command
\* was written with the gate open and the key holds the value's text, or fails
\* with 'Failed to save item: ' followed by the cause's message: NotInitialized
\* when no singleton exists, else InvalidValue for a null or undefined value,
\* else NotConnected with the gate closed, else the failure of the connection;
\* a command the store answers makes the call resolve, a command rejected by
\* the ended handle makes it fail.
C21_FailClosed ==
    /\ [](SaveSettled =>
            /\ last.st = "err" =>
                  \E c \in SetFailures : last.err = "Failed to save item: " \o c
            /\ last.inst = 0 =>
                  /\ last.st = "err"
                  /\ last.err = "Failed to save item: " \o ErrNotInitialized
            /\ (last.inst # 0 /\ last.val \in {Null, Undefined}) =>
                  /\ last.st = "err"
                  /\ last.err = "Failed to save item: " \o ErrInvalidValue
            /\ (last.inst # 0 /\ last.val \notin {Null, Undefined} /\ ~last.gate) =>
                  /\ last.st = "err"
                  /\ last.err = "Failed to save item: " \o ErrNotConnected
            /\ last.st = "ok" =>
                  /\ last.gate
                  /\ last.cmd.key \in DOMAIN store
                  /\ store[last.cmd.key].text = JSONstringify(last.val))
    /\ [][\A h \in Attempts :
             /\ SaveAnswered(h) => last'.op = "saveItem" /\ last'.st = "ok"
             /\ SaveFlushed(h) =>
                   /\ last'.op = "saveItem" /\ last'.st = "err"
                   /\ last'.err = "Failed to save item: " \o ErrClosed]_vars

\* saveItem failed on a connection lost with its command in flight
C21_Witness ==
    /\ last.op = "saveItem"
    /\ last.st = "err"
    /\ last.gate
    /\ last.cmd # NoCmd
    /\ last.err = "Failed to save item: Connection is closed."

\* the last call is an isNewItem() that has settled
NewSettled == last.op = "isNewItem" /\ last.st \in {"ok", "err"}

\* a command of an isNewItem() call is rejected with the handle ended
NewFlushed(h) == wire[h] # <<>> /\ Head(wire[h]).op = "isNewItem" /\ onFlush(h)

\* C22: an isNewItem() call that settles returns a boolean and never fails;
\* it returns true when no singleton exists (NotInitialized), when the gate is
\* closed (NotConnected: never connected, connecting, closed, shut down) and
\* when the handle rejects its command; a call that does not settle at once
\* is pending on its command.
C22_NeverRaises ==
    /\ [](NewSettled =>
            /\ last.st = "ok"
            /\ last.ret \in {Bool(TRUE), Bool(FALSE)}
            /\ (last.inst = 0 \/ ~last.gate \/ last.err # "") => last.ret = Bool(TRUE))
    /\ [][/\ \A h \in Attempts : NewFlushed(h) =>
                /\ last'.op = "isNewItem" /\ last'.st = "ok"
                /\ last'.ret = Bool(TRUE)
          /\ \A cs \in NewStores, k \in StoreKeys : isNewItem(cs, k) =>
                \/ last'.op = "isNewItem" /\ last'.st = "ok" /\ last'.ret = Bool(TRUE)
                \/ /\ last' = Idle
                   /\ instance # 0
                   /\ cache[instance].isReady /\ cache[instance].redis # 0]_vars

\* isNewItem returned true after a shutdown that reset the singleton
C22_Witness ==
    /\ last.op = "isNewItem"
    /\ last.st = "ok"
    /\ last.ret = Bool(TRUE)
    /\ last.inst = 0
    /\ \E i \in Insts : down[i]

\* the last call is an isNewItem() whose command the store answered
NewAnswered == NewSettled /\ last.cmd # NoCmd /\ last.err = ""

\* C23: an isNewItem() whose get finds at namespace:key a text that is not
\* valid JSON returns true.
C23_FailOpenOnDecode ==
    (NewAnswered /\ Live(store, last.cmd.key) /\ ParseFails(Named.text)) =>
        last.ret = Bool(TRUE)

\* C24: on a connected manager, the command of isNewItem(k) reads the key
\* namespace:k; the call returns true when the key holds nothing; when the
\* key holds what a saveItem() wrote (the empty string included), it returns
\* false while fewer seconds have passed than the ttl given to saveItem(),
\* else the store's default, else 86400, and true once they have passed.
C24_NewUntilSaved ==
    NewAnswered =>
        /\ last.cmd.key = Prefixed(last.cs.namespace \o <<":">> \o last.key)
        /\ last.cmd.key \notin DOMAIN store => last.ret = Bool(TRUE)
        /\ (last.cmd.key \in DOMAIN store /\ Named.by # Undefined) =>
              LET ttl == Expiry([ttl |-> Named.given, cs |-> Named.cs])
              IN /\ Named.age < ttl => last.ret = Bool(FALSE)
                 /\ Named.age >= ttl => last.ret = Bool(TRUE)

\* isNewItem returned true again once the default TTL of the store had passed
\* on an empty string
C24_Witness ==
    /\ NewAnswered
    /\ last.cmd.key \in DOMAIN store
    /\ Named.by = Str("")
    /\ Named.given = NoTtl
    /\ Named.cs.defaultTTL = 2
    /\ Named.age = 2
    /\ last.ret = Bool(TRUE)

\* what isNewItem(k) of cache store cs returns when its command is answered
\* with the store holding st
NewIn(st, cs, k) == IsNew(Decode(Answer(Cmd("get", getKey(fullKey(cs, k)), "", 0), st)))

\* C25: when the store answers the command of a saveItem() call, the result
\* of isNewItem(k2) on a cache store with another namespace is what it was,
\* for every key k2; and a saveItem(k) that resolved has stored its value at
\* namespace:k.
C25_NamespaceIsolation ==
    /\ [][\A h \in Attempts : SaveAnswered(h) =>
             \A cs \in SpaceStores, k2 \in SpaceKeys :
                cs.namespace # Head(wire[h]).cs.namespace =>
                    NewIn(store', cs, k2) = NewIn(store, cs, k2)]_vars
    /\ []((last.op = "saveItem" /\ last.st = "ok") =>
            LET key == Prefixed(last.cs.namespace \o <<":">> \o last.key)
            IN key \in DOMAIN store /\ store[key].by = last.val)

\* handle h carried a connection that connect() established
Established(h) == promise[h] = "ok"

\* the established connection of h, lost and reopened by the client, is ready
\* again
ReadyAgain(h) ==
    /\ Established(h)
    /\ client[h].status = "connecting"
    /\ client[h].steady >= 1
    /\ onReady(h)

\* handle h is ready after having been lost and restored
Restored(h) == Established(h) /\ client[h].status = "ready" /\ client[h].steady >= 2

\* C26: when an established connection emits close the object is no longer
\* connected; when the client has reopened the same handle and it emits ready
\* again, the object is connected again on that handle with no connect() call
\* made or resumed; and on the restored handle a data operation writes its
\* command and succeeds when the store answers it.
C26_AutoReconnect ==
    [][\A h \in Attempts :
          LET o == client[h].owner
          IN /\ (Established(h) /\ client[h].status = "ready" /\ onClose(h)) =>
                   ~(cache'[o].isReady /\ cache'[o].redis # 0)
             /\ ReadyAgain(h) =>
                   /\ cache[o].redis = h /\ cache'[o].redis = h
                   /\ cache'[o].isReady
                   /\ client'[h].status = "ready"
                   /\ last' = Idle
                   /\ UNCHANGED <<instance, promise, waiters, wire>>
             /\ (Restored(h) /\ cache[o].redis = h) =>
                   /\ \A k \in SteadyKeys : get(o, k) =>
                          Len(wire'[h]) = 1 /\ wire'[h][1].op = "get"
                   /\ (wire[h] # <<>> /\ reply(h)) => last'.st = "ok"]_vars

\* get returned the stored value on a connection the client had restored
C26_Witness ==
    /\ GetReturned
    /\ last.ret = Str("v")
    /\ Restored(cache[last.inst].redis)

\* the manager's state: the singleton and the fields of the objects
manager == <<instance, cache>>

\* an object connected on the handle of an established connection has that
\* handle ready
GateFollowsHandle ==
    \A h \in Attempts :
        (Established(h) /\ cache[client[h].owner].redis = h
            /\ cache[client[h].owner].isReady) => client[h].status = "ready"

\* C27 as stated: after an established connection emits close the object is
\* not connected and every data operation (with a value that can be stored)
\* fails with NotConnected; of the events of an established connection only
\* close changes the manager's state: ready, error, reconnecting and end leave
\* it as it is.
C27_OnlyCloseChanges ==
    /\ [](GateFollowsHandle
            /\ ((DataSettled /\ ~last.gate /\ ~NilSet) =>
                    last.st = "err" /\ last.err = ErrNotConnected /\ last.cmd = NoCmd))
    /\ [][\A h \in Attempts : Established(h) =>
             /\ onClose(h) => ~cache'[client[h].owner].isReady
             /\ (onReady(h) \/ onError(h) \/ onReconnecting(h) \/ onEnd(h)) =>
                   UNCHANGED manager]_vars

\* C27 amended: an object is connected on the handle of an established
\* connection only while that handle is ready; with the gate closed a data
\* operation writes nothing and fails with NotConnected (set with a null or
\* undefined value: InvalidValue).  Of the events of an established
\* connection, reconnecting and end leave the manager's state as it is, close
\* and error clear the readiness flag, ready sets it, and none changes
\* anything else of the manager.
C27_DetectedAtCallTime ==
    /\ [](GateFollowsHandle
            /\ ((DataSettled /\ ~last.gate) =>
                    /\ last.st = "err"
                    /\ last.err = IF last.op = "set" /\ last.val \in {Null, Undefined}
                                   THEN ErrInvalidValue ELSE ErrNotConnected
                    /\ last.cmd = NoCmd))
    /\ [][\A h \in Attempts : Established(h) =>
             LET o == client[h].owner
             IN /\ (onReconnecting(h) \/ onEnd(h)) => UNCHANGED manager
                /\ (onClose(h) \/ onError(h)) =>
                      /\ cache' = [cache EXCEPT ![o].isReady = FALSE]
                      /\ UNCHANGED instance
                /\ onReady(h) =>
                      /\ cache' = [cache EXCEPT ![o].isReady = TRUE]
                      /\ UNCHANGED instance]_vars

\* get failed with NotConnected on an object whose established connection
\* had closed
C27_Witness ==
    /\ last.op = "get"
    /\ last.err = ErrNotConnected
    /\ cache[last.inst].redis # 0
    /\ Established(cache[last.inst].redis)
    /\ client[cache[last.inst].redis].status = "closed"

\* C28: a data operation (with a value that can be stored) called while a
\* connection attempt of its object is in flight fails with NotConnected and
\* writes no command.
C28_NoDataDuringAttempt ==
    /\ (DataSettled /\ last.busy /\ ~NilSet) =>
          last.st = "err" /\ last.err = ErrNotConnected /\ last.cmd = NoCmd
    /\ \A p \in InFlightData : ~p.busy

\* C29: an object is connected only if the handle it holds is ready, and a
\* ready event of a handle its object does not hold leaves the readiness flag
\* as it is.
C29_ReadinessInvariant ==
    /\ [](\A i \in Insts :
            (cache[i].isReady /\ cache[i].redis # 0) =>
                client[cache[i].redis].status = "ready")
    /\ [][\A h \in Attempts :
             (onReady(h) /\ cache[client[h].owner].redis # h) =>
                 cache'[client[h].owner].isReady = cache[client[h].owner].isReady]_vars

\* C30: the promise of every connection attempt settles, the connect() calls
\* awaiting it resume, and the marker of an attempt in flight is cleared.
C30_ConnectSettles ==
    /\ \A a \in Attempts :
          (promise[a] = "pending") ~> (promise[a] # "pending" /\ waiters[a] = 0)
    /\ \A i \in Insts : (cache[i].connectPromise # 0) ~> (cache[i].connectPromise = 0)

\* the positions of the calls written on handle h, oldest first
OnWire(h) == 1..Len(wire[h])

\* shutdown() has begun on object i: its quit is in flight, or it completed
\* and no connect() has resolved since
ShutdownBegun(i) ==
    \/ down[i]
    \/ \E h \in Attempts : \E n \in OnWire(h) :
          wire[h][n].op = "shutdown" /\ wire[h][n].inst = i

\* a get or set of a storable value called on object i
RacingCall(i) ==
    \/ \E k \in RaceKeys : get(i, k)
    \/ \E k \in RaceKeys, v \in RaceVals : set(i, k, v, NoTtl)

WritesWith(cmd, ttl) ==
    IF ttl = NoTtl THEN cmd.name = "set"
    ELSE cmd.name = "setex" /\ cmd.ttl = ttl

\* C32: the command of set() is the write with expiration whenever a ttl was
\* supplied and the plain write exactly when none was; so is the command of
\* each item of setBulk(), and that of saveItem() for the ttl it hands down
\* (the one given, else the store's default, else 86400).
C32_TtlSupplied ==
    \A p \in Written \cup InFlightSaves \cup (IF last.op = "saveItem" /\ last.cmd # NoCmd
                                               THEN {last} ELSE {}) :
        /\ p.op = "set" => WritesWith(p.cmd, p.ttl)
        /\ p.op = "setBulk" =>
              \A n \in 1..Len(p.items) : WritesWith(p.cmd.batch[n], p.items[n].ttl)
        /\ p.op = "saveItem" => WritesWith(p.cmd, Expiry(p))

\* what the store holds: the text, expiry and age at each key
Content(st) ==
    [k \in DOMAIN st |-> [text |-> st[k].text, ttl |-> st[k].ttl, age |-> st[k].age]]

\* the store after the command of set(key, value, ttl) for each item, in list
\* order
RECURSIVE SetEach(_, _)
SetEach(items, st) ==
    IF items = <<>> THEN st
    ELSE SetEach(Tail(items),
                 StoreAfter(WriteCmd(getKey(Head(items).key),
                                     JSONstringify(Head(items).value),
                                     Head(items).ttl), st))

\* the store answers the batch of a setBulk() call
BulkAnswered(h) == wire[h] # <<>> /\ Head(wire[h]).op = "setBulk" /\ reply(h)

\* C33: when the store answers the batch of setBulk(items) with no failure,
\* the call resolves, also with a null value among the items, and the store
\* holds what the commands of set() for each item in list order would leave;
\* with the empty list it holds what it held; and a get() of a key holding the
\* text null returns null.
C33_BulkAsSets ==
    /\ [][\A h \in Attempts : BulkAnswered(h) =>
             LET p == Head(wire[h])
             IN (\A n \in 1..Len(last'.results) : last'.results[n].err = "") =>
                   /\ last'.st = "ok"
                   /\ Len(last'.results) = Len(p.items)
                   /\ Content(store') = Content(SetEach(p.items, store))
                   /\ p.items = <<>> => store' = store]_vars
    /\ []((GetReturned /\ Live(store, last.cmd.key) /\ Named.text = "null") =>
            last.ret = Null)

\* get returned null for a key that setBulk wrote with a null value
C33_Witness ==
    /\ GetReturned
    /\ last.ret = Null
    /\ last.key = <<"k">>
    /\ Live(store, last.cmd.key)
    /\ Named.by = Undefined

\* the store answers the batch of an executePipeline() call
PipelineAnswered(h) ==
    wire[h] # <<>> /\ Head(wire[h]).op = "executePipeline" /\ reply(h)

\* the executePipeline() calls that wrote their batch
Pipelines == {p \in Written : p.op = "executePipeline"}

\* what get returns for a stored text: the value it is the JSON text of, or
\* the text itself
ReadAs(ret, text) == JSONstringify(ret) = text \/ ret = Str(text)

\* C34: the batch executePipeline() writes is the commands its builder
\* enqueued, keys and texts as given; a set of the batch stores its text at
\* exactly the key it names and touches no other key.  In test mode get(k)
\* reads the key test:k: it returns what a pipeline wrote there, and undefined
\* when only the key k was written.
C34_PipelineRaw ==
    /\ [](\A p \in Pipelines : p.cmd.batch = p.ops)
    /\ [][\A h \in Attempts : PipelineAnswered(h) =>
             LET c == Head(wire[h]).ops[1]
             IN /\ DOMAIN store' = DOMAIN store \cup {c.key}
                /\ store'[c.key].text = c.text
                /\ \A k \in DOMAIN store : k # c.key => store'[k] = store[k]]_vars
    /\ []((testMode /\ GetReturned) =>
            LET key == <<"t", "e", "s", "t", ":">> \o last.key
            IN /\ key \in DOMAIN store => ReadAs(last.ret, store[key].text)
               /\ key \notin DOMAIN store => last.ret = Undefined)

\* in test mode get(k) returned undefined although a pipeline had written the
\* key k
C34_Witness ==
    /\ testMode
    /\ GetReturned
    /\ last.key = <<"k">>
    /\ last.ret = Undefined
    /\ <<"k">> \in DOMAIN store
    /\ store[<<"k">>].by = Undefined

\* a shutdown() call on the object i runs to its end in this step
ShutdownDone(i) ==
    last'.op = "shutdown" /\ last'.inst = i /\ last'.st = "ok" /\ down'[i]
    /\ (shutdown(i) \/ \E h \in Attempts : quitReply(h))

\* C35: a shutdown() that completes on an object that is not the current
\* singleton leaves the singleton reference as it is.
C35_ForeignShutdownKeepsSingleton ==
    [][\A i \in Insts :
          (instance # 0 /\ instance # i /\ ShutdownDone(i)) => instance' = instance]_vars

\* the last call is a saveItem() or an isNewItem() that has settled
StoreSettled == SaveSettled \/ NewSettled

\* the failure inside the last store call: saveItem wraps it, isNewItem logs it
Cause(err) ==
    IF last.op = "saveItem" THEN last.st = "err" /\ last.err = "Failed to save item: " \o err
    ELSE last.st = "ok" /\ last.ret = Bool(TRUE) /\ last.err = err

C37_ListenersAttachedOnce == \A h \in Attempts : client[h].steady <= 1

\* the keys cache.keys() lists
Listed == {k \in DOMAIN store : Live(store, k) /\ GlobMatch(getKey(Star), k)}

\* C38: when flushCache() has completed, cache.keys() lists no key, in test
\* mode and outside it.
C38_FlushLeavesNoKey == (last.op = "flushCache" /\ last.st = "ok") => Listed = {}

\* the retry policy has answered
RetryAnswered == last.op = "retryStrategy" /\ last.st = "ok"

\* C39: the retry policy answers null for every attempt number from 5 on, and
\* for the attempt numbers 1..4 a delay d with 2^attempt <= d <= 3000,
\* whatever the jitter in 0..4999.
C39_RetryPolicy ==
    RetryAnswered =>
        /\ last.n >= 5 => last.ret = Null
        /\ last.n \in 1..4 =>
              /\ last.ret.t = "num"
              /\ Pow2(last.n) <= last.ret.n
              /\ last.ret.n <= 3000

\* the fourth attempt with the largest jitter was answered with the cap
C39_Witness ==
    /\ RetryAnswered
    /\ last.n = 4
    /\ last.val = Num(4999)
    /\ last.ret = Num(3000)

\* C9: the accessor fails exactly when it is called without a configuration
\* while no instance exists; it then fails with NotInitialized, constructs no
\* object and leaves the singleton uninitialized; otherwise it returns the
\* instance.
C9_NotInitialized ==
    /\ [](last.op = "getInstance" =>
            /\ (last.st = "err") <=> (last.cfg = NoConfig /\ instance = 0)
            /\ last.st = "err" => last.err = ErrNotInitialized /\ last.inst = 0
            /\ last.st # "err" => last.st = "ok" /\ last.inst = instance)
    /\ [][(instance = 0 /\ getInstance(NoConfig)) =>
             /\ last'.st = "err"
             /\ UNCHANGED <<instance, cache, client, promise, waiters, wire>>]_vars

\* the accessor failed
C9_Witness ==
    /\ last.op = "getInstance"
    /\ last.st = "err"
    /\ last.cfg = NoConfig
    /\ \E i \in Insts : cache[i].made

\* C10: while an instance exists, the accessor returns it whatever the
\* configuration passed, and changes nothing; an object keeps the
\* configuration it was constructed with, which is that of the call that
\* constructed it.
C10_SameInstance ==
    /\ [](last.made => cache[last.inst].config = last.cfg)
    /\ [][/\ \A cfg \in Configs \cup {NoConfig} : (instance # 0 /\ getInstance(cfg)) =>
                /\ last'.st = "ok"
                /\ last'.inst = instance
                /\ UNCHANGED <<instance, cache>>
          /\ \A i \in Insts : cache[i].made =>
                cache'[i].made /\ cache'[i].config = cache[i].config]_vars

\* the accessor was called with another configuration than the instance's
C10_Witness ==
    /\ last.op = "getInstance"
    /\ last.st = "ok"
    /\ ~last.made
    /\ last.cfg \in Configs
    /\ last.cfg # cache[last.inst].config

====
